---- MODULE Spec2Model ----
(***************************************************************************)
(* Model of the catalog store of the Library Management System             *)
(* (class DatabaseManager of project.py): one SQLite table                 *)
(*   books(title NOT NULL, author NOT NULL, isbn PRIMARY KEY, genre,       *)
(*         pub_year)                                                       *)
(* reached through one long-lived connection of Python's sqlite3 module.   *)
(* The module opens a transaction implicitly before an INSERT or a DELETE  *)
(* and ends it only at conn.commit(); a statement that fails is undone     *)
(* alone and leaves the transaction open.                                  *)
(*                                                                         *)
(* A row is the 5-tuple <<title, author, isbn, genre, pub_year>>, in the   *)
(* column order of the table.  A table is the sequence of its rows in      *)
(* rowid order, which is the order SELECT * returns them in.               *)
(***************************************************************************)
EXTENDS Integers, Sequences, FiniteSets, TLC

----------------------------------------------------------------------------
(* Bounds of the model *)

\* number of distinct isbn texts the callers and the generator draw from
NumIsbns == 2

\* length of the generated batch; stands for range(50) of the generator
SampleCount == 2

----------------------------------------------------------------------------
(* Values *)

\* SQL NULL (Python None); no text equals it
NULL == "<NULL>"

IsbnText == <<"0000000001", "0000000002", "0000000003", "0000000004">>

\* the isbn texts in play (10-digit strings, as the generator makes them)
Isbns == {IsbnText[i] : i \in 1..NumIsbns}

\* text of the Title: and Author: form fields; a blank field gives ""
Titles == {"", "Dune"}
Authors == {"", "Frank Herbert"}
Genres == {"Sci-Fi"}
PubYears == {"1965"}

\* the tuple LibraryManagementSystem.add_book builds from the five fields
FormRecords == Titles \X Authors \X Isbns \X Genres \X PubYears

\* one generated record: title, author, genre and year come from fixed
\* non-empty lists, the isbn is random
SampleRecord(isbn) == <<"Python Mastery 1", "John Smith", isbn, "Programming", "2015">>

RECURSIVE SeqsOfLen(_, _)
SeqsOfLen(S, n) ==
    IF n = 0 THEN {<<>>}
    ELSE {Append(s, x) : s \in SeqsOfLen(S, n - 1), x \in S}

\* every list _generate_sample_data can return: isbns chosen independently
generate_sample_data == {[i \in 1..SampleCount |-> SampleRecord(c[i])] : c \in SeqsOfLen(Isbns, SampleCount)}

----------------------------------------------------------------------------
(* The table and its statements *)

isbn_of(r) == r[3]

IsbnsIn(rows) == {isbn_of(rows[i]) : i \in DOMAIN rows}

\* a NOT NULL that also refuses the empty text
NotNullOK_NonEmpty(r) == r[1] \notin {NULL, ""} /\ r[2] \notin {NULL, ""}

\* title TEXT NOT NULL, author TEXT NOT NULL
NotNullOK(r) == r[1] # NULL /\ r[2] # NULL

\* a table whose isbn column lost its PRIMARY KEY
PrimaryKeyOK_Off(rows, r) == TRUE

\* isbn TEXT PRIMARY KEY of a rowid table: unique among non-NULL values
PrimaryKeyOK(rows, r) == isbn_of(r) = NULL \/ isbn_of(r) \notin IsbnsIn(rows)

\* an INSERT that binds title and author in each other's column
StoredRow_Swapped(r) == <<r[2], r[1], r[3], r[4], r[5]>>

\* the row as the TEXT columns keep it: text is stored verbatim
StoredRow(r) == <<r[1], r[2], r[3], r[4], r[5]>>

\* INSERT OR REPLACE: a stored row with the same isbn gives way to the new one
InsertRow_OrReplace(rows, r) ==
    IF NotNullOK(r)
    THEN [ok |-> TRUE,
          rows |-> Append(SelectSeq(rows, LAMBDA x : x[3] # r[3]), StoredRow(r))]
    ELSE [ok |-> FALSE, rows |-> rows]

\* INSERT INTO books VALUES (?, ?, ?, ?, ?): ok = FALSE is IntegrityError,
\* and then the statement has changed nothing
InsertRow(rows, r) ==
    IF NotNullOK(r) /\ PrimaryKeyOK(rows, r)
    THEN [ok |-> TRUE, rows |-> Append(rows, StoredRow(r))]
    ELSE [ok |-> FALSE, rows |-> rows]

\* a DELETE whose WHERE clause compares the wrong way round
DeleteRows_Others(rows, isbn) == SelectSeq(rows, LAMBDA r : isbn_of(r) = isbn)

\* DELETE FROM books WHERE isbn = ?
DeleteRows(rows, isbn) == SelectSeq(rows, LAMBDA r : isbn_of(r) # isbn)

\* cursor.executemany: the INSERT runs once per record, in order, and stops
\* at the first one that fails; the rows inserted before it stay
RECURSIVE ExecuteMany(_, _)
ExecuteMany(rows, batch) ==
    IF batch = <<>> THEN [ok |-> TRUE, rows |-> rows]
    ELSE LET s == InsertRow(rows, Head(batch))
         IN IF s.ok THEN ExecuteMany(s.rows, Tail(batch))
            ELSE [ok |-> FALSE, rows |-> s.rows]

\* DROP TABLE then CREATE TABLE: every start begins with an empty table
CreateTable_Fresh(exists, rows) == <<>>

\* CREATE TABLE IF NOT EXISTS books: the rows of the table afterwards
CreateTable(exists, rows) == IF exists THEN rows ELSE <<>>

----------------------------------------------------------------------------
(* State *)

VARIABLES
    running,     \* the process is up and owns the connection
    tableExists, \* the file at db_name holds the books table
    disk,        \* the committed rows: what a new connection would see
    view,        \* the rows this connection sees: disk plus its open transaction
    inTxn,       \* conn.in_transaction
    last,        \* the last call: [op, arg, ret]
    before,      \* view when the last call started
    beforeDisk   \* disk when the last call started

vars == <<running, tableExists, disk, view, inTxn, last, before, beforeDisk>>

Call(op, arg, ret) == [op |-> op, arg |-> arg, ret |-> ret]

\* no file yet, no process
Init ==
    /\ running = FALSE
    /\ tableExists = FALSE
    /\ disk = <<>>
    /\ view = <<>>
    /\ inTxn = FALSE
    /\ last = Call("none", <<>>, "None")
    /\ before = <<>>
    /\ beforeDisk = <<>>

\* DatabaseManager.__init__: connect, then create_tables with its commit
initialize ==
    /\ ~running
    /\ running' = TRUE
    /\ tableExists' = TRUE
    /\ disk' = CreateTable(tableExists, disk)
    /\ view' = disk'
    /\ inTxn' = FALSE
    /\ last' = Call("initialize", <<>>, "None")
    /\ before' = disk
    /\ beforeDisk' = disk

\* DatabaseManager.add_book(book_data)
add_book(r) ==
    /\ running
    /\ LET s == InsertRow(view, r)
       IN IF s.ok
          THEN /\ view' = s.rows
               /\ disk' = s.rows
               /\ inTxn' = FALSE
               /\ last' = Call("add_book", <<r>>, "True")
          ELSE /\ view' = s.rows
               /\ disk' = disk
               /\ inTxn' = TRUE
               /\ last' = Call("add_book", <<r>>, "False")
    /\ before' = view
    /\ beforeDisk' = disk
    /\ UNCHANGED <<running, tableExists>>

\* DatabaseManager.get_all_books(): SELECT * FROM books, fetchall
get_all_books ==
    /\ running
    /\ last' = Call("get_all_books", view, "rows")
    /\ before' = view
    /\ beforeDisk' = disk
    /\ UNCHANGED <<running, tableExists, disk, view, inTxn>>

\* DatabaseManager.delete_book(isbn)
delete_book(isbn) ==
    /\ running
    /\ view' = DeleteRows(view, isbn)
    /\ disk' = view'
    /\ inTxn' = FALSE
    /\ last' = Call("delete_book", <<isbn>>, "True")
    /\ before' = view
    /\ beforeDisk' = disk
    /\ UNCHANGED <<running, tableExists>>

\* DatabaseManager.add_sample_books(): no try/except around executemany
add_sample_books(batch) ==
    /\ running
    /\ LET s == ExecuteMany(view, batch)
       IN IF s.ok
          THEN /\ view' = s.rows
               /\ disk' = s.rows
               /\ inTxn' = FALSE
               /\ last' = Call("add_sample_books", batch, "None")
          ELSE /\ view' = s.rows
               /\ disk' = disk
               /\ inTxn' = TRUE
               /\ last' = Call("add_sample_books", batch, "raised")
    /\ before' = view
    /\ beforeDisk' = disk
    /\ UNCHANGED <<running, tableExists>>

\* the process ends (window closed, or aborted on the unhandled exception):
\* the connection goes without a commit and its open transaction is lost
exit ==
    /\ running
    /\ running' = FALSE
    /\ view' = disk
    /\ inTxn' = FALSE
    /\ last' = Call("exit", <<>>, "None")
    /\ before' = view
    /\ beforeDisk' = disk
    /\ UNCHANGED <<tableExists, disk>>

Next ==
    \/ initialize
    \/ \E r \in FormRecords : add_book(r)
    \/ get_all_books
    \/ \E isbn \in Isbns : delete_book(isbn)
    \/ \E batch \in generate_sample_data : add_sample_books(batch)
    \/ exit

Spec == Init /\ [][Next]_vars

----------------------------------------------------------------------------
(* Properties *)

LastRow == last.arg[1]
LastIsbn == last.arg[1]

HasEmptyTitleOrAuthor(r) == r[1] = "" \/ r[2] = ""

\* C1: add_book of a record whose isbn is already in the store returns False
\* and leaves every stored row, the one with that isbn included, as it was.
C1_DuplicateInsertRejected ==
    (last.op = "add_book" /\ isbn_of(LastRow) \in IsbnsIn(before))
        => (last.ret = "False" /\ view = before /\ disk = beforeDisk)

\* a second record with a stored isbn but other field values was refused
C1_Witness ==
    /\ last.op = "add_book"
    /\ last.ret = "False"
    /\ \E i \in DOMAIN before :
          isbn_of(before[i]) = isbn_of(LastRow) /\ before[i] # LastRow

\* C2 (as stated): delete_book of an isbn that is not in the store returns
\* False and leaves the store unchanged.
C2_AbsentDeleteReportsFailure ==
    (last.op = "delete_book" /\ LastIsbn \notin IsbnsIn(before))
        => (last.ret = "False" /\ view = before)

\* C3 (as stated): add_sample_books adds its whole batch or nothing of it.
C3_BatchAllOrNothing ==
    (last.op = "add_sample_books")
        => (view = before \o last.arg \/ view = before)

\* C4 (as stated): no mutating store operation ends by raising.
C4_NoErrorPropagates ==
    last.op \in {"add_book", "delete_book", "add_sample_books"}
        => last.ret # "raised"

\* C5: delete_book of an isbn that is in the store returns True, removes the
\* row with that isbn, and keeps every other row, unchanged and in order.
C5_DeleteRemovesOnlyThatRow ==
    (last.op = "delete_book" /\ LastIsbn \in IsbnsIn(before))
        => /\ last.ret = "True"
           /\ LastIsbn \notin IsbnsIn(view)
           /\ Len(view) = Len(before) - 1
           /\ \A i \in DOMAIN before :
                 isbn_of(before[i]) # LastIsbn
                     => \E j \in DOMAIN view : view[j] = before[i]

\* one of several rows was deleted
C5_Witness ==
    /\ last.op = "delete_book"
    /\ LastIsbn \in IsbnsIn(before)
    /\ Len(before) >= 2

\* C6: add_book of a record whose isbn is not in the store returns True and
\* the rows are then the previous rows followed by that record, field for
\* field; on an empty store they are exactly that record.
C6_InsertRoundTrip ==
    (last.op = "add_book" /\ isbn_of(LastRow) \notin IsbnsIn(before))
        => (last.ret = "True" /\ view = Append(before, LastRow) /\ disk = view)

\* a record with a blank field was added to a store that held a row
C6_Witness ==
    /\ last.op = "add_book"
    /\ isbn_of(LastRow) \notin IsbnsIn(before)
    /\ before # <<>>
    /\ HasEmptyTitleOrAuthor(LastRow)

\* C7 (as stated): add_book of a record with an empty title or author
\* returns False and changes nothing, so no stored row has an empty title or
\* author.
C7_EmptyTitleAuthorRejected ==
    /\ \A i \in DOMAIN view : ~HasEmptyTitleOrAuthor(view[i])
    /\ (last.op = "add_book" /\ HasEmptyTitleOrAuthor(LastRow))
           => (last.ret = "False" /\ view = before)

\* C7 (amended): the empty text is not NULL; add_book of a record with an
\* empty title or author succeeds exactly when its isbn is not in the store,
\* and then the record is stored with its empty field.
C7_EmptyTitleAuthorAccepted ==
    (last.op = "add_book" /\ HasEmptyTitleOrAuthor(LastRow))
        => /\ last.ret = (IF isbn_of(LastRow) \in IsbnsIn(before) THEN "False" ELSE "True")
           /\ last.ret = "True" => view = Append(before, LastRow)
           /\ last.ret = "False" => view = before

\* a record with an empty title and one with an empty author are stored
C7_Witness ==
    /\ last.op = "add_book"
    /\ last.ret = "True"
    /\ HasEmptyTitleOrAuthor(LastRow)
    /\ \E i \in DOMAIN view : view[i][1] = ""
    /\ \E i \in DOMAIN view : view[i][2] = ""

NoDuplicateIsbn(rows) ==
    \A i, j \in DOMAIN rows : isbn_of(rows[i]) = isbn_of(rows[j]) => i = j

\* C8: no two rows of the store, as seen through the connection or as
\* committed, have the same isbn.
C8_IsbnUnique == NoDuplicateIsbn(view) /\ NoDuplicateIsbn(disk)

\* the store holds several rows and an insert of a stored isbn was attempted
C8_Witness ==
    /\ Len(view) >= 2
    /\ last.op \in {"add_book", "add_sample_books"}
    /\ last.ret \in {"False", "raised"}

\* C9 (as stated): on an empty store add_sample_books leaves as many rows as
\* the generator made records, whatever isbns it drew.
C9_SampleBatchComplete ==
    (last.op = "add_sample_books" /\ before = <<>>)
        => Len(view) = SampleCount

\* C10: initialization keeps the committed rows of an existing store as they
\* were, and creating the table again changes nothing.
C10_InitializeIdempotent ==
    (last.op = "initialize")
        => /\ disk = beforeDisk
           /\ view = disk
           /\ CreateTable(tableExists, disk) = disk

\* the process started again on a store that holds committed rows
C10_Witness ==
    /\ last.op = "initialize"
    /\ Len(disk) >= 1

====
